---- MODULE Spec2Model ----
(***************************************************************************)
(* A state-machine model of node's smalloc (src/src/smalloc.cc): external  *)
(* array data attached to managed objects, its release by dispose() or by  *)
(* the collector's weak callback, the external-memory accounting, and the  *)
(* bounds-checked copyOnto / sliceOnto.                                    *)
(*                                                                         *)
(* Scaling.  Uint32Value() yields ArgBits-bit numbers instead of 32-bit    *)
(* ones and kMaxLength keeps its relation to that width (2^(bits-2) - 1,   *)
(* as 0x3fffffff = 2^30 - 1).  size_t is sizeBits wide: the build is       *)
(* either narrow (size_t as wide as a Uint32) or wide (twice as wide), and *)
(* all size_t arithmetic is taken modulo 2^sizeBits.                       *)
(*                                                                         *)
(* assert() is compiled in (node builds without NDEBUG): a failed assert   *)
(* aborts the process.  Undefined behaviour (free of a pointer that is not *)
(* the start of a live malloc block, use of a deleted CallbackInfo, a      *)
(* memmove outside a live block) either crashes the process or lets it run *)
(* on; both outcomes are generated and ub records that one has happened.   *)
(***************************************************************************)
EXTENDS Integers, Sequences, FiniteSets, TLC

\* ------------------------------------------------------------- bounds
ArgBits == 7
MaxDispose == 2
MaxCopies == 1

\* ---------------------------------------------------------- constants
Uint32Range == 2 ^ ArgBits
kMaxLength == 2 ^ (ArgBits - 2) - 1

Objs == {"A", "B"}
NotAnObject == "undefined"

kExternalByteArray == "kExternalByteArray"
kExternalUnsignedByteArray == "kExternalUnsignedByteArray"
kExternalShortArray == "kExternalShortArray"
kExternalUnsignedShortArray == "kExternalUnsignedShortArray"
kExternalIntArray == "kExternalIntArray"
kExternalUnsignedIntArray == "kExternalUnsignedIntArray"
kExternalFloatArray == "kExternalFloatArray"
kExternalDoubleArray == "kExternalDoubleArray"
kExternalPixelArray == "kExternalPixelArray"
\* what GetIndexedPropertiesExternalArrayDataType() yields for an object
\* without external array data, and any other tag outside the enumeration
Unrecognized == "unrecognized"

ExternalArraySize(type) ==
  CASE type = kExternalUnsignedByteArray -> 1
    [] type = kExternalByteArray -> 1
    [] type = kExternalShortArray -> 2
    [] type = kExternalUnsignedShortArray -> 2
    [] type = kExternalIntArray -> 4
    [] type = kExternalUnsignedIntArray -> 4
    [] type = kExternalFloatArray -> 4
    [] type = kExternalDoubleArray -> 8
    [] type = kExternalPixelArray -> 1
    [] OTHER -> 0

VARIABLES
  sizeBits,   \* the build: width of size_t in bits
  ext,        \* per object: its indexed-properties external array data
  hidden,     \* per object: the hidden value smalloc_p_string
  cbinfo,     \* per object: the CallbackInfo allocated for it
  using_cb,   \* env->using_smalloc_alloc_cb()
  weak,       \* per object: the weak Persistent registered for it
  reach,      \* per object: live, unreachable, or finalized by the collector
  heap,       \* native blocks, in order of allocation
  mem,        \* the bytes of each native block
  acct,       \* running total of AdjustAmountOfExternalAllocatedMemory
  aborted,    \* "none", or why the process ended
  err,        \* the exception thrown by the last call, or "none"
  ub,         \* undefined behaviour has been executed
  copies,     \* number of memmoves performed
  hist        \* per object: history of what was done through it

vars == <<sizeBits, ext, hidden, cbinfo, using_cb, weak, reach, heap, mem,
          acct, aborted, err, ub, copies, hist>>

\* ------------------------------------------------------------ helpers
SizeT(x) == x % (2 ^ sizeBits)

NULL == [blk |-> 0, off |-> 0]

NoData == [has |-> FALSE, data |-> NULL, type |-> Unrecognized, len |-> 0]

\* obj->SetIndexedPropertiesToExternalArrayData(data, type, length)
SetIndexedPropertiesToExternalArrayData(data, type, length) ==
  [has |-> TRUE, data |-> data, type |-> type, len |-> length]

\* sizeof(CallbackInfo): three pointer-sized members
SizeofCallbackInfo == 3 * (sizeBits \div ArgBits)

NoWeak == [state |-> "none", fn |-> "none", param |-> NULL]

NoHist == [origin |-> "none", added |-> 0, subtracted |-> 0, releases |-> 0,
           decs |-> 0, disposes |-> 0, finalDone |-> FALSE]

InitByte(b, i) == <<b, i>>

\* a block as malloc / new char[] hands it out: every byte its own value
NewBlock(how, size) == [size |-> size, how |-> how, released |-> 0]
NewBytes(b, size) == [i \in 0 .. size - 1 |-> InitByte(b, i)]

\* free(p) is defined only on the start of a live block that malloc made
FreeValid(p) ==
  /\ p.blk # 0
  /\ p.off = 0
  /\ heap[p.blk].how = "malloc"
  /\ heap[p.blk].released = 0

\* the heap after p's block was handed to a release policy (free, or the
\* FreeCallback) once more
Released(p) ==
  IF p.blk = 0 THEN heap
  ELSE [heap EXCEPT ![p.blk].released = @ + 1]

Running == aborted = "none"

Init ==
  /\ sizeBits \in {ArgBits, 2 * ArgBits}
  /\ ext = [o \in Objs |-> NoData]
  /\ hidden = [o \in Objs |-> "undefined"]
  /\ cbinfo = [o \in Objs |-> "none"]
  /\ using_cb = FALSE
  /\ weak = [o \in Objs |-> NoWeak]
  /\ reach = [o \in Objs |-> "live"]
  /\ heap = << >>
  /\ mem = << >>
  /\ acct = 0
  /\ aborted = "none"
  /\ err = "none"
  /\ ub = FALSE
  /\ copies = 0
  /\ hist = [o \in Objs |-> NoHist]

\* the process ends (a failed assert, FatalError, or a crash) and with it
\* every object, block and counter of the process
Abort(why) ==
  /\ aborted' = why
  /\ ext' = [o \in Objs |-> NoData]
  /\ hidden' = [o \in Objs |-> "undefined"]
  /\ cbinfo' = [o \in Objs |-> "none"]
  /\ using_cb' = FALSE
  /\ weak' = [o \in Objs |-> NoWeak]
  /\ reach' = [o \in Objs |-> "live"]
  /\ heap' = << >>
  /\ mem' = << >>
  /\ acct' = 0
  /\ err' = "none"
  /\ copies' = 0
  /\ hist' = [o \in Objs |-> NoHist]
  /\ ub' = FALSE
  /\ UNCHANGED sizeBits

\* the call throws and returns
Throw(msg) ==
  /\ err' = msg
  /\ UNCHANGED <<sizeBits, ext, hidden, cbinfo, using_cb, weak, reach, heap,
                 mem, acct, aborted, ub, copies, hist>>

\* ------------------------------------------------------------ alloc
\* Alloc(env, obj, data, length, type), lines 265-278.  nheap and nmem are
\* the heap and its bytes after the caller's malloc.
AllocData(obj, data, length, type, nheap, nmem) ==
  IF ext[obj].has
  THEN Abort("assert")
  ELSE /\ acct' = acct + length
       /\ weak' = [weak EXCEPT ![obj] = [state |-> "armed",
                                         fn |-> "TargetCallback",
                                         param |-> data]]
       /\ ext' = [ext EXCEPT ![obj] =
                   SetIndexedPropertiesToExternalArrayData(
                     data, type, length \div ExternalArraySize(type))]
       /\ heap' = nheap
       /\ mem' = nmem
       /\ hist' = [hist EXCEPT ![obj].origin = "alloc",
                               ![obj].added = @ + length]
       /\ err' = "none"
       /\ UNCHANGED <<sizeBits, hidden, cbinfo, using_cb, reach, aborted, ub,
                      copies>>

\* Alloc(env, obj, length, type), lines 243-262
AllocLength(obj, length, type) ==
  IF ~(length <= kMaxLength) \/ ~(ExternalArraySize(type) > 0)
  THEN Abort("assert")
  ELSE IF length = 0
  THEN AllocData(obj, NULL, length, type, heap, mem)
  ELSE \/ AllocData(obj, [blk |-> Len(heap) + 1, off |-> 0], length, type,
                    Append(heap, NewBlock("malloc", length)),
                    Append(mem, NewBytes(Len(heap) + 1, length)))
       \/ Abort("Out Of Memory")

\* mutant of AlreadyHasData: the binding does not look
NeverHasData(obj) == FALSE

\* line 222: the binding refuses an object that has external array data
AlreadyHasData(obj) == ext[obj].has

\* the binding alloc(obj, n[, type]), lines 215-240; type "undefined" is
\* the omitted third argument
Alloc(obj, n, type) ==
  /\ Running
  /\ reach[obj] = "live"
  /\ IF AlreadyHasData(obj)
     THEN Throw("object already has external array data")
     ELSE IF type = "undefined"
     THEN AllocLength(obj, n, kExternalUnsignedByteArray)
     ELSE LET type_length == ExternalArraySize(type)
          IN IF ~(SizeT(type_length * n) >= n)
             THEN Abort("assert")
             ELSE AllocLength(obj, SizeT(type_length * n), type)

\* Alloc(env, obj, data, length, fn, hint, type), lines 368-394
AllocDataCb(obj, data, length, type, nheap, nmem) ==
  IF ext[obj].has
  THEN Abort("assert")
  ELSE /\ using_cb' = TRUE
       /\ cbinfo' = [cbinfo EXCEPT ![obj] = "live"]
       /\ hidden' = [hidden EXCEPT ![obj] = "external"]
       /\ acct' = acct + SizeT(length + SizeofCallbackInfo)
       /\ weak' = [weak EXCEPT ![obj] = [state |-> "armed",
                                         fn |-> "TargetFreeCallback",
                                         param |-> data]]
       /\ ext' = [ext EXCEPT ![obj] =
                   SetIndexedPropertiesToExternalArrayData(
                     data, type, length \div ExternalArraySize(type))]
       /\ heap' = nheap
       /\ mem' = nmem
       /\ hist' = [hist EXCEPT ![obj].origin = "allocCb",
                               ![obj].added =
                                 @ + SizeT(length + SizeofCallbackInfo)]
       /\ err' = "none"
       /\ UNCHANGED <<sizeBits, reach, aborted, ub, copies>>

\* Alloc(env, obj, length, fn, hint, type), lines 348-365: length counts
\* elements; the block comes from new char[]
AllocCb(obj, n, type) ==
  /\ Running
  /\ reach[obj] = "live"
  /\ LET type_size == ExternalArraySize(type)
         length == SizeT(n * type_size)
     IN IF ~(n <= kMaxLength) \/ ~(type_size > 0) \/ ~(length >= n)
        THEN Abort("assert")
        ELSE \/ AllocDataCb(obj, [blk |-> Len(heap) + 1, off |-> 0], length,
                            type,
                            Append(heap, NewBlock("new", length)),
                            Append(mem, NewBytes(Len(heap) + 1, length)))
             \/ Abort("Out Of Memory")

\* ---------------------------------------------------------- release
\* TargetFreeCallback(isolate, target, cb_info), lines 397-417, run for obj
\* by "dispose" or by the collector ("final"); nub is ub afterwards
TargetFreeCallback(obj, by, nub) ==
  LET len0 == ext[obj].len
      array_size == ExternalArraySize(ext[obj].type)
      len == IF array_size > 1 THEN SizeT(len0 * array_size) ELSE len0
      dec == SizeT(len + SizeofCallbackInfo)
  IN IF ~(array_size > 0) \/ (array_size > 1 /\ ~(len > len0))
     THEN Abort("assert")
     ELSE /\ acct' = acct - dec
          /\ weak' = [weak EXCEPT ![obj].state = "reset"]
          /\ heap' = Released(ext[obj].data)
          /\ cbinfo' = [cbinfo EXCEPT ![obj] = "deleted"]
          /\ hist' = [hist EXCEPT
                        ![obj].releases = @ + 1,
                        ![obj].decs = @ + 1,
                        ![obj].subtracted = @ + dec,
                        ![obj].disposes = IF by = "dispose" THEN @ + 1 ELSE @,
                        ![obj].finalDone = IF by = "final" THEN TRUE ELSE @]
          /\ reach' = [reach EXCEPT ![obj] =
                         IF by = "final" THEN "finalized" ELSE @]
          /\ err' = "none"
          /\ ub' = nub
          /\ UNCHANGED <<sizeBits, ext, hidden, using_cb, mem, aborted,
                         copies>>

\* mutant of DisposeLength: the element count is taken for the byte length
DisposeLengthUnscaled(length, array_size) == length

\* line 333: the byte length AllocDispose subtracts
DisposeLength(length, array_size) == SizeT(length * array_size)

\* AllocDispose, lines 324-345: the object has no CallbackInfo
DisposeData(obj) ==
  LET data == ext[obj].data
      length0 == ext[obj].len
      array_size == ExternalArraySize(ext[obj].type)
      length == DisposeLength(length0, array_size)
  IN IF ~(array_size > 0) \/ ~(length >= length0)
     THEN Abort("assert")
     ELSE \/ /\ data # NULL
             /\ ~FreeValid(data)
             /\ Abort("crash")
          \/ /\ ext' = [ext EXCEPT ![obj] =
                         IF data # NULL
                         THEN SetIndexedPropertiesToExternalArrayData(
                                NULL, kExternalUnsignedByteArray, 0)
                         ELSE @]
             /\ heap' = IF data # NULL THEN Released(data) ELSE heap
             /\ ub' = (ub \/ (data # NULL /\ ~FreeValid(data)))
             /\ acct' = IF length # 0 THEN acct - length ELSE acct
             /\ hist' = [hist EXCEPT
                           ![obj].releases = IF data # NULL THEN @ + 1 ELSE @,
                           ![obj].decs = IF length # 0 THEN @ + 1 ELSE @,
                           ![obj].subtracted = @ + length,
                           ![obj].disposes = @ + 1]
             /\ err' = "none"
             /\ UNCHANGED <<sizeBits, hidden, cbinfo, using_cb, weak, reach,
                            mem, aborted, copies>>

\* lines 314-316: the object carries a CallbackInfo in its hidden value
HasCallbackInfo(obj) == using_cb /\ hidden[obj] = "external"

\* AllocDispose(env, obj), lines 311-345 (the binding, lines 305-308,
\* passes its argument on)
AllocDispose(obj) ==
  /\ Running
  /\ reach[obj] = "live"
  /\ hist[obj].disposes < MaxDispose
  /\ IF HasCallbackInfo(obj)
     THEN IF cbinfo[obj] = "live"
          THEN TargetFreeCallback(obj, "dispose", ub)
          ELSE \* cb_info was deleted: every use of it is undefined
               \/ Abort("crash")
               \/ TargetFreeCallback(obj, "dispose", TRUE)
     ELSE DisposeData(obj)

\* mutant of StillAttached: the length dispose() zeroed is not looked at
StillAttachedAnyLength(info, len) == info # NULL

\* line 293: TargetCallback releases only a block that is still attached
StillAttached(info, len) == info # NULL /\ len > 0

\* TargetCallback, lines 281-301: the collector found obj unreachable
TargetCallback(obj) ==
  LET info == weak[obj].param
      len0 == ext[obj].len
      array_size == ExternalArraySize(ext[obj].type)
      len == SizeT(len0 * array_size)
      frees == StillAttached(info, len)
  IN IF ~(array_size > 0) \/ ~(len >= len0)
     THEN Abort("assert")
     ELSE \/ /\ frees
             /\ ~FreeValid(info)
             /\ Abort("crash")
          \/ /\ acct' = IF frees THEN acct - len ELSE acct
             /\ heap' = IF frees THEN Released(info) ELSE heap
             /\ ub' = (ub \/ (frees /\ ~FreeValid(info)))
             /\ weak' = [weak EXCEPT ![obj].state = "fired"]
             /\ reach' = [reach EXCEPT ![obj] = "finalized"]
             /\ hist' = [hist EXCEPT
                           ![obj].releases = IF frees THEN @ + 1 ELSE @,
                           ![obj].decs = IF frees THEN @ + 1 ELSE @,
                           ![obj].subtracted = IF frees THEN @ + len ELSE @,
                           ![obj].finalDone = TRUE]
             /\ UNCHANGED <<sizeBits, ext, hidden, cbinfo, using_cb, mem,
                            aborted, err, copies>>

\* the program drops its last reference to obj
Unreachable(obj) ==
  /\ Running
  /\ reach[obj] = "live"
  /\ reach' = [reach EXCEPT ![obj] = "unreachable"]
  /\ UNCHANGED <<sizeBits, ext, hidden, cbinfo, using_cb, weak, heap, mem,
                 acct, aborted, err, ub, copies, hist>>

\* the collector runs the weak callback registered for an unreachable obj
Finalize(obj) ==
  /\ Running
  /\ reach[obj] = "unreachable"
  /\ weak[obj].state = "armed"
  /\ IF weak[obj].fn = "TargetCallback"
     THEN TargetCallback(obj)
     ELSE TargetFreeCallback(obj, "final", ub)

\* ------------------------------------------------------------- slice
\* p + n on a char*
PtrAdd(p, n) == [blk |-> p.blk, off |-> p.off + n]

\* the byte count SliceOnto hands on as the new length, lines 195-200
SliceLength(source_size, start, end) ==
  IF source_size > 1
  THEN SizeT(SizeT(end - start) * source_size)
  ELSE SizeT(end - start)

\* the asserts of SliceOnto, lines 181-204
SliceAsserts(source, dest, start, end) ==
  LET source_size == ExternalArraySize(ext[source].type)
      length0 == SizeT(end - start)
      length == SliceLength(source_size, start, end)
  IN /\ ext[source].has
     /\ ~ext[dest].has
     /\ source_size # 0
     /\ (source_size > 1 => length >= length0)
     /\ (ext[source].data # NULL \/ length = 0)
     /\ end <= ext[source].len
     /\ start <= end

\* sliceOnto(source, dest, start, end), lines 174-210
SliceOnto(source, dest, start, end) ==
  /\ Running
  /\ reach[source] = "live"
  /\ reach[dest] = "live"
  /\ IF ~SliceAsserts(source, dest, start, end)
     THEN Abort("assert")
     ELSE /\ ext' = [ext EXCEPT ![dest] =
                      SetIndexedPropertiesToExternalArrayData(
                        PtrAdd(ext[source].data, start),
                        ext[source].type,
                        SliceLength(ExternalArraySize(ext[source].type),
                                    start, end))]
          /\ hist' = [hist EXCEPT ![dest].origin = "slice"]
          /\ err' = "none"
          /\ UNCHANGED <<sizeBits, hidden, cbinfo, using_cb, weak, reach,
                         heap, mem, acct, aborted, ub, copies>>

\* -------------------------------------------------------------- copy
\* lines 132-149: the lengths the bounds checks use, and the error thrown
\* on the way (s and d are the external array data of source and dest)
CopyLengths(s, d, copy_length) ==
  LET source_size == ExternalArraySize(s.type)
      dest_size == ExternalArraySize(d.type)
  IN IF source_size # 1 /\ dest_size # 1
     THEN [err |-> IF source_size = 0
                   THEN "unknown source external array type"
                   ELSE IF dest_size = 0
                   THEN "unknown dest external array type"
                   ELSE IF SizeT(s.len * source_size) < s.len
                   THEN "source_length * source_size overflow"
                   ELSE IF SizeT(copy_length * source_size) < copy_length
                   THEN "copy_length * source_size overflow"
                   ELSE IF SizeT(d.len * dest_size) < d.len
                   THEN "dest_length * dest_size overflow"
                   ELSE "none",
           source_length |-> SizeT(s.len * source_size),
           copy_length |-> SizeT(copy_length * source_size),
           dest_length |-> SizeT(d.len * dest_size)]
     ELSE [err |-> "none",
           source_length |-> s.len,
           copy_length |-> copy_length,
           dest_length |-> d.len]

\* mutant of CopyBounds: the two sums are not checked
CopyBoundsNoSums(source_start, dest_start, copy_length, source_length, dest_length) ==
  IF copy_length > source_length THEN "copy_length > source_length"
  ELSE IF copy_length > dest_length THEN "copy_length > dest_length"
  ELSE IF source_start > source_length THEN "source_start > source_length"
  ELSE IF dest_start > dest_length THEN "dest_start > dest_length"
  ELSE "none"

\* lines 151-165: the six bounds checks, in order
CopyBounds(source_start, dest_start, copy_length, source_length, dest_length) ==
  IF copy_length > source_length THEN "copy_length > source_length"
  ELSE IF copy_length > dest_length THEN "copy_length > dest_length"
  ELSE IF source_start > source_length THEN "source_start > source_length"
  ELSE IF dest_start > dest_length THEN "dest_start > dest_length"
  ELSE IF SizeT(source_start + copy_length) > source_length
  THEN "source_start + copy_length > source_length"
  ELSE IF SizeT(dest_start + copy_length) > dest_length
  THEN "dest_start + copy_length > dest_length"
  ELSE "none"

\* the n bytes from p on lie in a block that is still allocated
RangeLive(p, n) ==
  \/ n = 0
  \/ /\ p.blk # 0
     /\ heap[p.blk].released = 0
     /\ p.off + n <= heap[p.blk].size

\* a byte read from outside every block of the model
Junk == <<0, 0>>

ReadByte(p) ==
  IF p.blk # 0 /\ p.off < heap[p.blk].size THEN mem[p.blk][p.off] ELSE Junk

\* memmove(dst, src, n), line 167: all n bytes are read before any is
\* written
Memmove(dst, src, n) ==
  IF dst.blk = 0 THEN mem
  ELSE [mem EXCEPT ![dst.blk] =
         [i \in DOMAIN @ |->
            IF dst.off <= i /\ i < dst.off + n
            THEN ReadByte(PtrAdd(src, i - dst.off))
            ELSE @[i]]]

\* copyOnto(source, source_start, dest, dest_start, copy_length),
\* lines 97-168
CopyOnto(source, source_start, dest, dest_start, copy_length) ==
  /\ Running
  /\ source \in Objs => reach[source] = "live"
  /\ dest \in Objs => reach[dest] = "live"
  /\ IF source \notin Objs THEN Throw("source must be an object")
     ELSE IF dest \notin Objs THEN Throw("dest must be an object")
     ELSE IF ~ext[source].has THEN Throw("source has no external array data")
     ELSE IF ~ext[dest].has THEN Throw("dest has no external array data")
     ELSE
       LET l == CopyLengths(ext[source], ext[dest], copy_length)
           bounds == CopyBounds(source_start, dest_start, l.copy_length,
                                l.source_length, l.dest_length)
           src == PtrAdd(ext[source].data, source_start)
           dst == PtrAdd(ext[dest].data, dest_start)
           defined == RangeLive(src, l.copy_length)
                      /\ RangeLive(dst, l.copy_length)
       IN IF l.err # "none" THEN Throw(l.err)
          ELSE IF bounds # "none" THEN Throw(bounds)
          ELSE \/ /\ ~defined
                  /\ Abort("crash")
               \/ /\ copies < MaxCopies
                  /\ mem' = Memmove(dst, src, l.copy_length)
                  /\ copies' = copies + 1
                  /\ ub' = (ub \/ ~defined)
                  /\ err' = "none"
                  /\ UNCHANGED <<sizeBits, ext, hidden, cbinfo, using_cb,
                                 weak, reach, heap, acct, aborted, hist>>

\* hasExternalData(obj), lines 426-435
HasExternalData(obj) == obj \in Objs /\ ext[obj].has

\* ------------------------------------------------------------ inputs
\* an element count whose eightfold wraps, in a narrow build, to a length
\* that is no smaller than the count and no larger than kMaxLength
WrapCount ==
  CHOOSE n \in 0 .. Uint32Range - 1 :
    /\ 8 * n >= Uint32Range
    /\ (8 * n) % Uint32Range >= n
    /\ (8 * n) % Uint32Range <= kMaxLength

\* alloc(obj, n, type) requests: zero and small lengths of one-byte and
\* wider kinds, the omitted type, a length over kMaxLength, a wrapping
\* product, an unrecognized kind
AllocRequests ==
  {<<0, "undefined">>, <<2, "undefined">>, <<4, kExternalUnsignedByteArray>>,
   <<0, kExternalIntArray>>, <<2, kExternalIntArray>>,
   <<kMaxLength, kExternalIntArray>>, <<WrapCount, kExternalDoubleArray>>,
   <<1, Unrecognized>>}
CbRequests ==
  {<<0, kExternalUnsignedByteArray>>, <<2, kExternalUnsignedByteArray>>,
   <<0, kExternalIntArray>>, <<2, kExternalIntArray>>,
   <<kMaxLength, kExternalIntArray>>,
   <<kMaxLength + 1, kExternalUnsignedByteArray>>, <<1, Unrecognized>>}
SliceBounds == {0, 1, 2}
CopyStarts == {0, 2}
CopyCounts == {0, 1, 3, WrapCount}

DoAlloc == \E obj \in Objs, r \in AllocRequests : Alloc(obj, r[1], r[2])
DoAllocCb == \E obj \in Objs, r \in CbRequests : AllocCb(obj, r[1], r[2])
DoDispose == \E obj \in Objs : AllocDispose(obj)
DoUnreachable == \E obj \in Objs : Unreachable(obj)
DoFinalize == \E obj \in Objs : Finalize(obj)
DoSlice ==
  \E source \in Objs, dest \in Objs, start \in SliceBounds,
     end \in SliceBounds :
    SliceOnto(source, dest, start, end)
\* copyOnto calls: every start and count on every pair of objects, and a
\* value that is no object in either place
CopyRequests ==
  (Objs \X CopyStarts \X Objs \X CopyStarts \X CopyCounts)
    \cup {<<NotAnObject, 0, o, 0, 0>> : o \in Objs}
    \cup {<<o, 0, NotAnObject, 0, 0>> : o \in Objs}
DoCopy == \E r \in CopyRequests : CopyOnto(r[1], r[2], r[3], r[4], r[5])

\* The lifetime of the buffers: every operation but copyOnto, which writes
\* bytes and err only while no other handler reads a byte.
Next ==
  \/ DoAlloc
  \/ DoAllocCb
  \/ DoDispose
  \/ DoUnreachable
  \/ DoFinalize
  \/ DoSlice

Spec == Init /\ [][Next]_vars

\* Transfers: copyOnto between buffers from alloc and slices of them.
NextCopy ==
  \/ DoAlloc
  \/ DoSlice
  \/ DoCopy

SpecCopy == Init /\ [][NextCopy]_vars

\* ====================================================================
\* Properties
\* ====================================================================
\* obj got its buffer from alloc or from the FreeCallback Alloc
Owning(obj) == hist[obj].origin \in {"alloc", "allocCb"}

\* obj was released: disposed of once, or finalized, and not disposed of
\* a second time
ReleasedOnce(obj) ==
  /\ hist[obj].disposes <= 1
  /\ (hist[obj].disposes = 1 \/ hist[obj].finalDone)

C2_AccountingBalance ==
  /\ \A obj \in Objs :
       (Owning(obj) /\ ReleasedOnce(obj)) =>
         hist[obj].subtracted = hist[obj].added
  /\ ((\A obj \in Objs :
         /\ hist[obj].origin # "slice"
         /\ (Owning(obj) => ReleasedOnce(obj))) => acct = 0)

\* two buffers, one of each origin and one of them wider than a byte,
\* were released and the accountant is back at zero
C2_Witness ==
  /\ acct = 0
  /\ \A obj \in Objs : Owning(obj) /\ ReleasedOnce(obj) /\ hist[obj].added > 2
  /\ \E obj \in Objs : hist[obj].origin = "allocCb"
  /\ \E obj \in Objs : hist[obj].origin = "alloc" /\ hist[obj].finalDone

\* --------------------------------------------------------------------
\* C3.  A buffer attached by sliceOnto is never released: no operation on
\* its object frees a block or decrements the accountant.
C3_SliceNeverReleased ==
  \A obj \in Objs :
    hist[obj].origin = "slice" =>
      (hist[obj].releases = 0 /\ hist[obj].decs = 0)

\* --------------------------------------------------------------------
\* C4.  The accountant's running total is never negative.
C4_AccountantNonNegative == acct >= 0

\* --------------------------------------------------------------------
\* C8.  alloc on an object that already has external array data throws
\* and changes nothing: the attached data, the accountant, the weak
\* registrations and the heap stay as they were.
C8_ReallocRejected ==
  [][\A obj \in Objs, r \in AllocRequests :
       (Alloc(obj, r[1], r[2]) /\ ext[obj].has) =>
         /\ err' # "none"
         /\ aborted' = "none"
         /\ UNCHANGED <<ext, hidden, cbinfo, weak, heap, mem, acct>>]_vars

\* alloc was refused on an object whose first buffer is still attached
C8_Witness ==
  /\ err = "object already has external array data"
  /\ \E obj \in Objs : ext[obj].has /\ ext[obj].data # NULL /\ acct > 0

\* --------------------------------------------------------------------
\* C9.  An alloc request whose element count times width exceeds
\* kMaxLength (or the word) fails with a reported error, attaches nothing
\* and leaves the accountant and the heap unchanged.
C9_OverflowReported ==
  [][\A obj \in Objs, r \in AllocRequests :
       (/\ Alloc(obj, r[1], r[2])
        /\ ~ext[obj].has
        /\ r[2] # "undefined"
        /\ ExternalArraySize(r[2]) > 0
        /\ r[1] * ExternalArraySize(r[2]) > kMaxLength) =>
         /\ err' # "none"
         /\ aborted' = "none"
         /\ UNCHANGED <<ext, weak, heap, mem, acct>>]_vars

\* --------------------------------------------------------------------
\* C10.  dispose on an object without external array data, or on one
\* already disposed of, fails with a reported error and changes nothing:
\* no release policy runs, the accountant stays, and no deleted
\* CallbackInfo is used.
C10_DisposeRejected ==
  [][\A obj \in Objs :
       (AllocDispose(obj) /\ (~ext[obj].has \/ hist[obj].disposes >= 1)) =>
         /\ err' # "none"
         /\ aborted' = "none"
         /\ ub' = ub
         /\ UNCHANGED <<ext, hidden, cbinfo, weak, heap, mem, acct>>]_vars

\* --------------------------------------------------------------------
\* copyOnto as section 4.2 of the specification states it, for two
\* buffers s and d attached by alloc: byte lengths when both kinds are one
\* byte wide, else each length times its element width, in true integers
ByteLengths(s, d, n) ==
  LET source_size == ExternalArraySize(s.type)
      dest_size == ExternalArraySize(d.type)
  IN IF source_size = 1 /\ dest_size = 1
     THEN [source |-> s.len, copy |-> n, dest |-> d.len]
     ELSE [source |-> s.len * source_size,
           copy |-> n * source_size,
           dest |-> d.len * dest_size]

\* none of the three products leaves the machine word
NoWordOverflow(s, d, n) ==
  /\ s.len * ExternalArraySize(s.type) < 2 ^ sizeBits
  /\ n * ExternalArraySize(s.type) < 2 ^ sizeBits
  /\ d.len * ExternalArraySize(d.type) < 2 ^ sizeBits

\* the first of the six inequalities that fails, in the order listed
FirstViolated(source_start, dest_start, l) ==
  IF l.copy > l.source THEN "copy_length > source_length"
  ELSE IF l.copy > l.dest THEN "copy_length > dest_length"
  ELSE IF source_start > l.source THEN "source_start > source_length"
  ELSE IF dest_start > l.dest THEN "dest_start > dest_length"
  ELSE IF source_start + l.copy > l.source
  THEN "source_start + copy_length > source_length"
  ELSE IF dest_start + l.copy > l.dest
  THEN "dest_start + copy_length > dest_length"
  ELSE "none"

\* s and d are objects with buffers from alloc, and no product overflows
CopyCase(s, d, n) ==
  /\ hist[s].origin = "alloc"
  /\ hist[d].origin = "alloc"
  /\ NoWordOverflow(ext[s], ext[d], n)

\* the byte at p, if p lies in a block
InBlock(p) == p.blk # 0 /\ p.off < heap[p.blk].size

\* --------------------------------------------------------------------
\* C5.  A copyOnto call that violates one of the six inequalities changes
\* no byte and not the accountant, and the error it throws names the first
\* inequality violated.
C5_CopyRejected ==
  [][\A s \in Objs, d \in Objs, ss \in CopyStarts, ds \in CopyStarts,
        n \in CopyCounts :
       (/\ CopyCase(s, d, n)
        /\ FirstViolated(ss, ds, ByteLengths(ext[s], ext[d], n)) # "none"
        /\ CopyOnto(s, ss, d, ds, n)) =>
         /\ mem' = mem
         /\ acct' = acct
         /\ err' = FirstViolated(ss, ds, ByteLengths(ext[s], ext[d], n))]_vars

\* --------------------------------------------------------------------
\* C6.  After a copyOnto call that satisfies the six inequalities and
\* passed every check, the bytes of dest
\* from dest_start on, as many as the copy length says, are the bytes
\* source held from source_start on, and no other byte has changed; also
\* when source and dest are the same buffer and the ranges overlap.
C6_CopyMoves ==
  [][\A s \in Objs, d \in Objs, ss \in CopyStarts, ds \in CopyStarts,
        n \in CopyCounts :
       (/\ CopyCase(s, d, n)
        /\ FirstViolated(ss, ds, ByteLengths(ext[s], ext[d], n)) = "none"
        /\ aborted' = "none"
        /\ err' = "none"
        /\ CopyOnto(s, ss, d, ds, n)) =>
         LET l == ByteLengths(ext[s], ext[d], n)
             src == PtrAdd(ext[s].data, ss)
             dst == PtrAdd(ext[d].data, ds)
         IN /\ \A i \in 0 .. l.copy - 1 :
                 /\ InBlock(PtrAdd(src, i))
                 /\ InBlock(PtrAdd(dst, i))
                 /\ mem'[dst.blk][dst.off + i] = mem[src.blk][src.off + i]
            /\ \A b \in DOMAIN mem : \A j \in DOMAIN mem[b] :
                 (b # dst.blk \/ j < dst.off \/ j >= dst.off + l.copy) =>
                   mem'[b][j] = mem[b][j]]_vars

\* --------------------------------------------------------------------
\* C7.  Unless both kinds are one byte wide, copyOnto checks its bounds on
\* the scaled lengths: source length and copy length times the source's
\* element width, dest length times the dest's, whatever the dest's kind.
C7_ScaledBeforeChecks ==
  [][\A s \in Objs, d \in Objs, ss \in CopyStarts, ds \in CopyStarts,
        n \in CopyCounts :
       (/\ CopyCase(s, d, n)
        /\ ~(ExternalArraySize(ext[s].type) = 1
             /\ ExternalArraySize(ext[d].type) = 1)
        /\ aborted' = "none"
        /\ CopyOnto(s, ss, d, ds, n)) =>
         err' = FirstViolated(ss, ds, ByteLengths(ext[s], ext[d], n))]_vars

\* --------------------------------------------------------------------
\* C11.  An allocation request whose element kind is unrecognized (width
\* 0), through alloc or through the FreeCallback Alloc, throws an error
\* the caller can catch: the process does not abort, and nothing was
\* allocated, accounted, registered or attached.
C11_UnknownKindReported ==
  [][\A obj \in Objs :
       (/\ ~ext[obj].has
        /\ \/ \E r \in AllocRequests :
                /\ r[2] # "undefined"
                /\ ExternalArraySize(r[2]) = 0
                /\ Alloc(obj, r[1], r[2])
           \/ \E r \in CbRequests :
                /\ ExternalArraySize(r[2]) = 0
                /\ AllocCb(obj, r[1], r[2])) =>
         /\ err' # "none"
         /\ aborted' = "none"
         /\ UNCHANGED <<ext, hidden, cbinfo, weak, heap, mem, acct>>]_vars

\* --------------------------------------------------------------------
\* the byte range [data, data + bytes) of a buffer, as offsets in its block
ByteRange(e) ==
  {e.data.off + i : i \in 0 .. e.len * ExternalArraySize(e.type) - 1}

\* C12.  Whenever sliceOnto(source, dest, start, end) attaches a buffer to
\* dest, with w the source's element width: start <= end <= source length,
\* dest's data is source's data + start * w, dest's byte length is
\* (end - start) * w, dest has source's kind, and dest's byte range lies
\* inside source's byte range.
C12_SliceGeometry ==
  [][\A source \in Objs, dest \in Objs, start \in SliceBounds,
        end \in SliceBounds :
       (/\ aborted' = "none"
        /\ SliceOnto(source, dest, start, end)) =>
         LET w == ExternalArraySize(ext[source].type)
         IN /\ start <= end
            /\ end <= ext[source].len
            /\ ext'[dest].has
            /\ ext'[dest].type = ext[source].type
            /\ ext'[dest].data = PtrAdd(ext[source].data, start * w)
            /\ ext'[dest].len * w = (end - start) * w
            /\ ByteRange(ext'[dest]) \subseteq ByteRange(ext[source])]_vars

\* --------------------------------------------------------------------
\* The collector is fair: the weak callback of an object that stays
\* unreachable with its registration armed is eventually run.
SpecFair == Spec /\ \A obj \in Objs : WF_vars(Finalize(obj))

\* obj's buffer came from alloc or the FreeCallback Alloc and was never
\* disposed of
Undisposed(obj) == Owning(obj) /\ hist[obj].disposes = 0

\* obj's native block (if it has one) went to its release policy and what
\* was added to the accountant for it has been subtracted
BlockReleased(obj) ==
  /\ ext[obj].data # NULL => heap[ext[obj].data.blk].released >= 1
  /\ hist[obj].subtracted = hist[obj].added

\* C13.  Under a fair collector, the native block of every buffer attached
\* by alloc or by the FreeCallback Alloc and never disposed of is released
\* once its object is unreachable: the weak callback, when it runs,
\* releases the block and subtracts its accounted bytes instead of ending
\* the process, and it does run unless the process has ended before.
C13_EventuallyReleased ==
  /\ [][\A obj \in Objs :
          (Undisposed(obj) /\ Finalize(obj)) =>
            (aborted' = "none" /\ BlockReleased(obj)')]_vars
  /\ \A obj \in Objs :
       (Undisposed(obj) /\ reach[obj] = "unreachable"
          /\ weak[obj].state = "armed")
         ~> (aborted # "none" \/ (reach[obj] = "finalized" /\ BlockReleased(obj)))

\* --------------------------------------------------------------------
\* C14.  Every attached buffer has a byte length (element count times
\* element width) of at most kMaxLength, whether alloc, the FreeCallback
\* Alloc or sliceOnto attached it.
C14_LengthBounded ==
  \A obj \in Objs :
    ext[obj].has =>
      ext[obj].len * ExternalArraySize(ext[obj].type) <= kMaxLength

\* --------------------------------------------------------------------
\* C15.  When dispose has run on an object whose buffer came from alloc or
\* from the FreeCallback Alloc, the object no longer exposes the released
\* data pointer or its length.
C15_DisposeDetaches ==
  [][\A obj \in Objs :
       (/\ Undisposed(obj)
        /\ ext[obj].has
        /\ aborted' = "none"
        /\ AllocDispose(obj)) =>
         (ext'[obj].data = NULL /\ ext'[obj].len = 0)]_vars

\* --------------------------------------------------------------------
\* C16.  Once dispose has run on an object whose buffer came from alloc or
\* from the FreeCallback Alloc, no weak registration for that object is
\* armed, so the collector has no callback left to run for it.
C16_WeakRevoked ==
  \A obj \in Objs :
    (Owning(obj) /\ hist[obj].disposes >= 1) => weak[obj].state # "armed"

\* --------------------------------------------------------------------
\* C17.  The release of a zero-length buffer, of any kind and from alloc
\* or the FreeCallback Alloc, by dispose or by the weak callback, trips no
\* assert and takes from the accountant what the allocation added.
C17_ZeroLengthRelease ==
  [][\A obj \in Objs :
       (/\ Undisposed(obj)
        /\ ext[obj].has
        /\ ext[obj].len = 0
        /\ (AllocDispose(obj) \/ Finalize(obj))) =>
         (aborted' = "none" /\ acct' = acct - hist[obj].added)]_vars

\* --------------------------------------------------------------------
\* C19.  No live object has external array data whose bytes lie in a
\* native block that was released.
C19_NoDanglingData ==
  \A obj \in Objs :
    (/\ reach[obj] = "live"
     /\ ext[obj].has
     /\ ext[obj].data # NULL
     /\ ext[obj].len > 0) =>
      heap[ext[obj].data.blk].released = 0

\* --------------------------------------------------------------------
\* the errors copyOnto throws for a product that overflowed
OverflowErrors ==
  {"source_length * source_size overflow",
   "copy_length * source_size overflow",
   "dest_length * dest_size overflow"}

\* C18.  In copyOnto between buffers of kinds 2, 4 or 8 bytes wide,
\* whenever the true product source length x source width, copy length x
\* source width or dest length x dest width exceeds the machine word, the
\* call throws an overflow error and moves no byte.
C18_OverflowRejected ==
  [][\A s \in Objs, d \in Objs, ss \in CopyStarts, ds \in CopyStarts,
        n \in CopyCounts :
       (/\ ext[s].has
        /\ ext[d].has
        /\ ExternalArraySize(ext[s].type) \in {2, 4, 8}
        /\ ExternalArraySize(ext[d].type) \in {2, 4, 8}
        /\ ~NoWordOverflow(ext[s], ext[d], n)
        /\ CopyOnto(s, ss, d, ds, n)) =>
         /\ aborted' = "none"
         /\ err' \in OverflowErrors
         /\ mem' = mem]_vars

====
